---- MODULE Spec2Model ----
(***************************************************************************)
(* A state-machine model of TinyNetworkProxyless                           *)
(* (lib/models/cell_searchs/search_model_proxyless.py): construction of    *)
(* the cell stack, the categorical sampling loop of forward() and          *)
(* sample_weights(), the per-layer dispatch of forward(), genotype()       *)
(* decoding and the parameter enumeration of get_weights().                *)
(*                                                                         *)
(* Tensors are functions over 0-based indices, as in the source: a matrix  *)
(* is a function [0..E-1 -> [0..K-1 -> value]].  Floating-point values are *)
(* abstracted to an ordered scale: the finite values 0..MaxVal, and the    *)
(* three non-finite values NegInf < every finite value < PosInf, and NaN.  *)
(***************************************************************************)
EXTENDS Integers, Sequences, FiniteSets, TLC

(* ------------------------------ bounds ------------------------------- *)
MaxNodes   == 3      \* max_nodes ranges over 2..MaxNodes
MaxN       == 2      \* cells per stage N ranges over 0..MaxN (construction)
NumOps     == 2      \* K = len(search_space)
MaxVal     == 1      \* finite tensor values are 0..MaxVal
MaxSamples == 2      \* sample_weights(n) is called with n in 0..MaxSamples
MaxDraws   == 2      \* the draw counter of one call saturates here
NumClasses == 2      \* the constructor argument num_classes
BaseC      == 1      \* the constructor argument C
InpSize    == 4      \* the constructor argument inp_size is 0 or InpSize

(* --------------------------- tensor values --------------------------- *)
FinVals == 0..MaxVal
NegInf  == 0 - 1
PosInf  == MaxVal + 1
NaN     == MaxVal + 2
AllVals == FinVals \cup {NegInf, PosInf, NaN}

None == <<>>

isnan(v) == v = NaN
isinf(v) == v \in {NegInf, PosInf}

Cols == 0..(NumOps - 1)
Rows(E) == 0..(E - 1)

(* search_space: the candidate operation names, a list of length K *)
AllOpNames == <<"none", "skip_connect", "nor_conv_1x1", "nor_conv_3x3",
                "avg_pool_3x3", "max_pool_3x3", "sep_conv_3x3">>
search_space == SubSeq(AllOpNames, 1, NumOps)

(* a Python list l indexed 0-based *)
At(l, i) == l[i + 1]

(* ------------------------- the searchable cell ----------------------- *)
(* NAS201SearchCell is imported from search_cells: a cell over max_nodes   *)
(* nodes has one edge per node pair (i, j), j < i, and maps the key        *)
(* '{i}<-{j}' to a row index.  The key is modelled as the pair <<i, j>>.   *)
node_str(i, j) == <<i, j>>

EdgeKeys(mn) == UNION {{node_str(i, j) : j \in 0..(i - 1)} : i \in 1..(mn - 1)}

CellLayout(mn) ==
  [num_edges  |-> (mn * (mn - 1)) \div 2,
   edge2index |-> [k \in EdgeKeys(mn) |-> ((k[1] * (k[1] - 1)) \div 2) + k[2]]]

(* a cell with the same number of edges whose rows are numbered in reverse *)
ReversedLayout(mn) ==
  LET L == CellLayout(mn) IN
  [num_edges  |-> L.num_edges,
   edge2index |-> [k \in EdgeKeys(mn) |-> (L.num_edges - 1) - L.edge2index[k]]]

(* what a SearchCell constructor may report to __init__ *)
CellReports(mn) == {CellLayout(mn), ReversedLayout(mn), CellLayout(mn + 1)}

(* ------------------------------ state -------------------------------- *)
VARIABLES
  pc,               \* "new", "failed", "idle", "returned" (a call has handed
                    \* its result to the caller) or the position inside a call
  C, N, max_nodes, inp_size,   \* constructor arguments
  cellReports,      \* layer position -> what the SearchCell built there reports
  layers,           \* zip(layer_channels, layer_reductions, layer_sizes)
  cells,            \* self.cells
  op_names,         \* self.op_names
  edge2index,       \* self.edge2index
  arch_parameters,  \* self.arch_parameters
  const,            \* self.const
  params,           \* the parameters registered per sub-module
  err,              \* the exception a call ended with, or None
  weights,          \* forward(): the weights argument
  index, hardwts,   \* the locals of the sampling loop
  draws,            \* number of executions of the sampling-loop body in this call
  li,               \* forward(): number of layers processed
  feature,          \* forward(): channel width of the running feature map
  full_cost,        \* forward(): the list full_cost
  calls,            \* forward(): the (layer, method, weights, index) cell invocations
  n_req, sw_i,      \* sample_weights(): n and the loop variable i
  sampled_weights,  \* sample_weights(): the list sampled_weights
  ret               \* the value returned by the last finished call

argVars  == <<C, N, max_nodes, inp_size, cellReports>>
netVars  == <<layers, cells, op_names, edge2index, const, params>>
callVars == <<weights, index, hardwts, draws, li, feature, full_cost, calls,
              n_req, sw_i, sampled_weights>>
vars     == <<pc, argVars, netVars, arch_parameters, err, callVars, ret>>

(* ---------------------------- construction --------------------------- *)
(* layer_sizes holds inp_size, inp_size/2 and inp_size/4 (true division);  *)
(* a size is kept in quarter units so that the quotients stay exact.       *)
SizeQ(inp, d) == (4 * inp) \div d

Repeat(x, n) == [i \in 1..n |-> x]

(* a slip: the last stage is left at width 2C *)
layer_channels_flat(c, n) ==
  Repeat(c, n) \o <<c * 2>> \o Repeat(c * 2, n) \o <<c * 2>> \o Repeat(c * 2, n)

layer_channels(c, n) ==
  Repeat(c, n) \o <<c * 2>> \o Repeat(c * 2, n) \o <<c * 4>> \o Repeat(c * 4, n)

layer_reductions(n) ==
  Repeat(FALSE, n) \o <<TRUE>> \o Repeat(FALSE, n) \o <<TRUE>> \o Repeat(FALSE, n)

layer_sizes(inp, n) ==
  Repeat(SizeQ(inp, 1), n) \o <<SizeQ(inp, 2)>> \o Repeat(SizeQ(inp, 2), n)
    \o <<SizeQ(inp, 4)>> \o Repeat(SizeQ(inp, 4), n)

Min(a, b) == IF a < b THEN a ELSE b

(* zip(layer_channels, layer_reductions, layer_sizes) *)
LayerPlan(c, n, inp) ==
  LET ch == layer_channels(c, n)
      rd == layer_reductions(n)
      sz == layer_sizes(inp, n)
  IN [i \in 1..Min(Len(ch), Min(Len(rd), Len(sz))) |->
        [C_curr |-> ch[i], reduction |-> rd[i], size |-> sz[i]]]

SearchPositions(plan) == {i \in 1..Len(plan) : ~plan[i].reduction}

(* a slip: only the edge counts are compared *)
edge_count_matches(num_edge, e2i, cell) == num_edge = cell.num_edges

(* the condition asserted for every SearchCell after the first *)
layout_matches(num_edge, e2i, cell) ==
  num_edge = cell.num_edges /\ e2i = cell.edge2index

(* The body of the loop over the plan, from layer i on.  st carries the    *)
(* locals C_prev, num_edge, edge2index and the ModuleList built so far; a  *)
(* failed assertion ends the loop with ok = FALSE.  num_edge and           *)
(* edge2index are assigned together, so "num_edge is None" is read off     *)
(* edge2index.                                                             *)
RECURSIVE BuildCells(_, _, _, _)
BuildCells(plan, reports, i, st) ==
  IF i > Len(plan) THEN st
  ELSE
    LET p == plan[i] IN
    IF p.reduction
    THEN LET cell == [kind |-> "ResNetBasicblock", C_in |-> st.C_prev,
                      out_dim |-> p.C_curr, stride |-> 2, size |-> 0,
                      num_edges |-> 0, edge2index |-> None]
         IN BuildCells(plan, reports, i + 1,
                       [st EXCEPT !.cells = Append(@, cell),
                                  !.C_prev = cell.out_dim])
    ELSE LET cell == [kind |-> "SearchCell", C_in |-> st.C_prev,
                      out_dim |-> p.C_curr, stride |-> 1, size |-> p.size,
                      num_edges |-> reports[i].num_edges,
                      edge2index |-> reports[i].edge2index]
         IN IF st.edge2index = None
            THEN BuildCells(plan, reports, i + 1,
                            [st EXCEPT !.num_edge = cell.num_edges,
                                       !.edge2index = cell.edge2index,
                                       !.cells = Append(@, cell),
                                       !.C_prev = cell.out_dim])
            ELSE IF layout_matches(st.num_edge, st.edge2index, cell)
                 THEN BuildCells(plan, reports, i + 1,
                                 [st EXCEPT !.cells = Append(@, cell),
                                            !.C_prev = cell.out_dim])
                 ELSE [st EXCEPT !.ok = FALSE]

(* the parameters each sub-module registers; a parameter is identified by  *)
(* its owner, its position in the owner and its name                       *)
Param(mod, idx, name) == [mod |-> mod, idx |-> idx, name |-> name]

StemParams       == <<Param("stem", 0, "weight"), Param("stem", 1, "weight"),
                      Param("stem", 1, "bias")>>
CellParams(cs)   == [i \in 1..Len(cs) |-> Param("cells", i - 1, "weight")]
LastactParams    == <<Param("lastact", 0, "weight"), Param("lastact", 0, "bias")>>
PoolingParams    == <<>>
ClassifierParams == <<Param("classifier", 0, "weight"),
                      Param("classifier", 0, "bias")>>
ArchParam        == Param("self", 0, "arch_parameters")

(* the matrices 1e-3*torch.randn(num_edge, K) is drawn from: finite values *)
Patterns(V)   == [Cols -> V]
ZeroRow       == [k \in Cols |-> 0]
OneRowOff(E, P) == {[e \in Rows(E) |-> IF e = s THEN p ELSE ZeroRow] :
                      s \in Rows(E), p \in P}
EndRowOff(E, P) == {[e \in Rows(E) |-> IF e = s THEN p ELSE ZeroRow] :
                      s \in {0, E - 1}, p \in P}
randn(E)      == EndRowOff(E, Patterns(FinVals))

NoCall == [weights |-> None, index |-> None, hardwts |-> None, draws |-> 0,
           li |-> 0, feature |-> 0, full_cost |-> <<>>, calls |-> <<>>,
           n_req |-> 0, sw_i |-> 0, sampled_weights |-> <<>>]

ResetCall ==
  /\ weights = NoCall.weights /\ index = NoCall.index
  /\ hardwts = NoCall.hardwts /\ draws = NoCall.draws /\ li = NoCall.li
  /\ feature = NoCall.feature /\ full_cost = NoCall.full_cost
  /\ calls = NoCall.calls /\ n_req = NoCall.n_req /\ sw_i = NoCall.sw_i
  /\ sampled_weights = NoCall.sampled_weights

(* the locals of a finished call are gone when the next call starts *)
ClearCall ==
  /\ weights' = NoCall.weights /\ index' = NoCall.index
  /\ hardwts' = NoCall.hardwts /\ draws' = NoCall.draws /\ li' = NoCall.li
  /\ feature' = NoCall.feature /\ full_cost' = NoCall.full_cost
  /\ calls' = NoCall.calls /\ n_req' = NoCall.n_req /\ sw_i' = NoCall.sw_i
  /\ sampled_weights' = NoCall.sampled_weights

(* the state before __init__ runs: the arguments are fixed, nothing built *)
InitArgs(Ns, Inps) ==
  /\ pc = "new"
  /\ C = BaseC
  /\ N \in Ns
  /\ max_nodes \in 2..MaxNodes
  /\ inp_size \in Inps
  /\ layers = <<>> /\ cells = <<>> /\ op_names = <<>> /\ edge2index = None
  /\ arch_parameters = None /\ const = FALSE
  /\ params = [stem |-> <<>>, cells |-> <<>>, lastact |-> <<>>,
               global_pooling |-> <<>>, classifier |-> <<>>, self |-> <<>>]
  /\ err = "" /\ ret = None
  /\ ResetCall

AnyReports(pos, mn)  == [pos -> CellReports(mn)]
SameReports(pos, mn) == {[i \in pos |-> r] : r \in {CellLayout(mn), ReversedLayout(mn)}}
CellReportsOnly(pos, mn) == {[i \in pos |-> CellLayout(mn)]}

SearchLayers == SearchPositions(LayerPlan(C, N, inp_size))

InitBuild ==
  InitArgs(0..MaxN, {0, InpSize}) /\ cellReports \in AnyReports(SearchLayers, max_nodes)
InitGenotype ==
  InitArgs({1}, {InpSize}) /\ cellReports \in SameReports(SearchLayers, max_nodes)
InitSample ==
  InitArgs({1}, {0, InpSize}) /\ cellReports \in CellReportsOnly(SearchLayers, max_nodes)
Init ==
  InitArgs(1..MaxN, {0, InpSize}) /\ cellReports \in CellReportsOnly(SearchLayers, max_nodes)

(* the caller takes the result (or the exception) of the finished call;    *)
(* the locals of that call are gone                                        *)
Returned ==
  /\ pc = "returned"
  /\ pc' = "idle"
  /\ ret' = None /\ err' = ""
  /\ ClearCall
  /\ UNCHANGED <<argVars, netVars, arch_parameters>>

(* __init__ *)
Construct ==
  /\ pc = "new"
  /\ LET plan == LayerPlan(C, N, inp_size)
         st0  == [ok |-> TRUE, C_prev |-> C, num_edge |-> 0, edge2index |-> None,
                  cells |-> <<>>]
         st   == BuildCells(plan, cellReports, 1, st0)
     IN /\ layers' = plan
        /\ cells' = st.cells
        /\ IF ~st.ok
           THEN /\ pc' = "failed" /\ err' = "AssertionError"
                /\ params' = [params EXCEPT !.stem = StemParams,
                                            !.cells = CellParams(st.cells)]
                /\ UNCHANGED <<op_names, edge2index, arch_parameters, const>>
           ELSE IF st.edge2index = None
           THEN \* torch.randn(None, K)
                /\ pc' = "failed" /\ err' = "TypeError"
                /\ op_names' = search_space
                /\ edge2index' = st.edge2index
                /\ params' = [params EXCEPT !.stem = StemParams,
                                            !.cells = CellParams(st.cells),
                                            !.lastact = LastactParams,
                                            !.global_pooling = PoolingParams,
                                            !.classifier = ClassifierParams]
                /\ UNCHANGED <<arch_parameters, const>>
           ELSE /\ pc' = "idle" /\ err' = ""
                /\ op_names' = search_space
                /\ edge2index' = st.edge2index
                /\ arch_parameters' \in randn(st.num_edge)
                /\ const' = (inp_size # 0)
                /\ params' = [stem |-> StemParams, cells |-> CellParams(st.cells),
                              lastact |-> LastactParams,
                              global_pooling |-> PoolingParams,
                              classifier |-> ClassifierParams,
                              self |-> <<ArchParam>>]
  /\ UNCHANGED <<argVars, callVars, ret>>

(* a slip: list(self.parameters()) *)
all_parameters ==
  params.self \o params.stem \o params.cells \o params.lastact
    \o params.global_pooling \o params.classifier

(* get_weights() *)
get_weights_list ==
  params.stem \o params.cells \o params.lastact \o params.global_pooling
    \o params.classifier

get_weights ==
  /\ pc = "idle"
  /\ ret' = [call |-> "get_weights", arg |-> None, value |-> get_weights_list]
  /\ pc' = "returned"
  /\ UNCHANGED <<argVars, netVars, arch_parameters, err, callVars>>

(* get_alphas() *)
get_alphas_list == params.self

get_alphas ==
  /\ pc = "idle"
  /\ ret' = [call |-> "get_alphas", arg |-> None, value |-> get_alphas_list]
  /\ pc' = "returned"
  /\ UNCHANGED <<argVars, netVars, arch_parameters, err, callVars>>

(* ------------------------ tensor primitives -------------------------- *)
(* torch's argmax over a row: the first index of the greatest entry, a NaN *)
(* counting as greater than every number                                   *)
Greater(a, b) == IF isnan(a) THEN ~isnan(b) ELSE (~isnan(b) /\ a > b)

(* a slip: the first index of the smallest entry *)
argmin(row) ==
  CHOOSE c \in DOMAIN row :
    /\ \A k \in DOMAIN row : ~Greater(row[c], row[k])
    /\ \A k \in DOMAIN row : k < c => Greater(row[k], row[c])

argmax(row) ==
  CHOOSE c \in DOMAIN row :
    /\ \A k \in DOMAIN row : ~Greater(row[k], row[c])
    /\ \A k \in DOMAIN row : k < c => Greater(row[c], row[k])

(* softmax over dim 1, per entry one of "pos" (finite, positive), "zero"   *)
(* (exp(-inf)) and "nan": a row holding NaN or +inf, or only -inf, comes   *)
(* out as NaN throughout; exp/sum never yields an infinite entry.          *)
softmax_row(row) ==
  IF \/ \E k \in DOMAIN row : row[k] \in {NaN, PosInf}
     \/ \A k \in DOMAIN row : row[k] = NegInf
  THEN [k \in DOMAIN row |-> "nan"]
  ELSE [k \in DOMAIN row |-> IF row[k] = NegInf THEN "zero" ELSE "pos"]

softmax(M) == [e \in DOMAIN M |-> softmax_row(M[e])]

(* a slip: the test is inverted *)
AllFinite(probs) ==
  \A e \in DOMAIN probs : \A k \in DOMAIN probs[e] : probs[e][k] \notin {"inf", "nan"}

(* (torch.isinf(probs).any()) or (torch.isnan(probs).any()) *)
NonFinite(probs) ==
  \E e \in DOMAIN probs : \E k \in DOMAIN probs[e] : probs[e][k] \in {"inf", "nan"}

(* torch.multinomial(probs, 1): one column per row, drawn among the        *)
(* entries of positive probability.  On a row of NaN the call either       *)
(* raises or yields an arbitrary column, depending on the device.          *)
multinomial(probs) ==
  {idx \in [DOMAIN probs -> Cols] :
     \A e \in DOMAIN probs :
       \/ probs[e][idx[e]] = "pos"
       \/ \E k \in DOMAIN probs[e] : probs[e][k] = "nan"}

multinomial_may_raise(probs) == NonFinite(probs)

(* a slip: torch.ones_like(probs).scatter_(-1, index, 1.0) *)
scatter_ones_like(probs, idx) ==
  [e \in DOMAIN probs |-> [k \in DOMAIN probs[e] |-> 1]]

(* torch.zeros_like(probs).scatter_(-1, index, 1.0) *)
scatter_one(probs, idx) ==
  [e \in DOMAIN probs |-> [k \in DOMAIN probs[e] |-> IF k = idx[e] THEN 1 ELSE 0]]

(* one_h - probs.detach() + probs: the forward value is the one-hot entry  *)
(* where the probability is finite ((1 - p) + p rounds to 1 and            *)
(* (0 - p) + p is 0 for p in [0, 1]) and NaN where it is NaN.              *)
straight_through(one_h, probs) ==
  [e \in DOMAIN probs |->
     [k \in DOMAIN probs[e] |-> IF probs[e][k] = "nan" THEN NaN ELSE one_h[e][k]]]

(* weights.max(-1, keepdim=True)[1] *)
max_index(M) == [e \in DOMAIN M |-> argmax(M[e])]

NumEdge == Cardinality(DOMAIN arch_parameters)

(* the values an optimizer step may leave in arch_parameters *)
AlphaSpace(E) == EndRowOff(E, Patterns(AllVals))

(* the one-hot matrices, as sample_weights() returns them *)
OneHots(E) == {[e \in Rows(E) |-> [k \in Cols |-> IF k = idx[e] THEN 1 ELSE 0]] :
                 idx \in [Rows(E) -> Cols]}

Inc(d) == IF d < MaxDraws THEN d + 1 ELSE d

(* arch_parameters is handed out by get_alphas() and updated in place by   *)
(* the caller's optimizer between calls.                                   *)
SetAlphas ==
  /\ pc = "idle"
  /\ arch_parameters' \in AlphaSpace(NumEdge)
  /\ UNCHANGED <<pc, argVars, netVars, err, callVars, ret>>

(* ------------------------------ genotype ----------------------------- *)
(* a slip: the outer loop runs over range(self.max_nodes) *)
genotypes_from_zero(M) ==
  [ii \in 1..max_nodes |->
     [jj \in 1..(ii - 1) |->
        LET j == jj - 1
            row == M[edge2index[node_str(ii - 1, j)]]
            op_name == At(op_names, argmax(row))
        IN <<op_name, j>>]]

genotypes(M) ==
  [i \in 1..(max_nodes - 1) |->
     [jj \in 1..i |->
        LET j == jj - 1
            row == M[edge2index[node_str(i, j)]]
            op_name == At(op_names, argmax(row))
        IN <<op_name, j>>]]

GenotypeInputs(E) == {None} \cup OneRowOff(E, Patterns(AllVals)) \cup OneHots(E)

(* genotype(w); the Structure returned wraps the list genotypes unchanged *)
genotype ==
  /\ pc = "idle"
  /\ \E w \in GenotypeInputs(NumEdge) :
       ret' = [call |-> "genotype", arg |-> w,
               value |-> genotypes(IF w = None THEN arch_parameters ELSE w)]
  /\ pc' = "returned"
  /\ UNCHANGED <<argVars, netVars, arch_parameters, err, callVars>>

(* ------------------------------ forward ------------------------------ *)
(* the external weights forward() is called with *)
ForwardInputs(E) == {None} \cup OneHots(E) \cup {[e \in Rows(E) |-> [k \in Cols |-> 1]]}

(* forward(inputs, weights): entry *)
forward_call ==
  /\ pc = "idle"
  /\ \E w \in ForwardInputs(NumEdge) : weights' = w
  /\ pc' = "forward_while"
  /\ UNCHANGED <<argVars, netVars, arch_parameters, err, index, hardwts, draws,
                 li, feature, full_cost, calls, n_req, sw_i, sampled_weights, ret>>

(* one execution of the body of "while weights is None" *)
forward_sample ==
  /\ pc = "forward_while"
  /\ weights = None
  /\ LET probs == softmax(arch_parameters) IN
       \/ /\ multinomial_may_raise(probs)
          /\ pc' = "returned" /\ err' = "RuntimeError"
          /\ draws' = Inc(draws)
          /\ UNCHANGED <<index, hardwts>>
       \/ \E idx \in multinomial(probs) :
            LET one_h == scatter_one(probs, idx) IN
            /\ index' = idx
            /\ hardwts' = straight_through(one_h, probs)
            /\ draws' = Inc(draws)
            /\ pc' = IF NonFinite(probs) THEN "forward_while" ELSE "forward_stem"
            /\ err' = ""
  /\ UNCHANGED <<argVars, netVars, arch_parameters, weights, li, feature,
                 full_cost, calls, n_req, sw_i, sampled_weights, ret>>

(* the loop condition is false: weights were supplied *)
forward_no_sample ==
  /\ pc = "forward_while"
  /\ weights # None
  /\ pc' = "forward_stem"
  /\ UNCHANGED <<argVars, netVars, arch_parameters, err, callVars, ret>>

(* feature = self.stem(inputs); full_cost = [] *)
forward_stem ==
  /\ pc = "forward_stem"
  /\ feature' = C
  /\ full_cost' = <<>>
  /\ pc' = "forward_cells"
  /\ UNCHANGED <<argVars, netVars, arch_parameters, err, weights, index, hardwts,
                 draws, li, calls, n_req, sw_i, sampled_weights, ret>>

(* the auxiliary cost a cell's forward_gdas_const reports for a selection *)
RECURSIVE SumTo(_, _)
SumTo(f, n) == IF n = 0 THEN 0 ELSE f[n - 1] + SumTo(f, n - 1)

cell_cost(cell, idx) == cell.out_dim * (1 + SumTo(idx, Cardinality(DOMAIN idx)))

Invocation(layer, method, w, idx) ==
  [layer |-> layer, method |-> method, weights |-> w, index |-> idx]

Dispatch(method, w, idx, cost) ==
  [method |-> method, weights |-> w, index |-> idx, cost |-> cost]

(* a slip: the index is not recomputed from the supplied weights *)
cell_dispatch_stale_index(cell, w, hw, idx, cst) ==
  LET isSearch == cell.kind = "SearchCell" IN
  IF isSearch /\ w = None /\ ~cst
  THEN Dispatch("forward_gdas", hw, idx, <<>>)
  ELSE IF isSearch /\ w = None
  THEN Dispatch("forward_gdas_const", hw, idx, <<cell_cost(cell, idx)>>)
  ELSE IF isSearch
  THEN Dispatch("forward_gdas", w, idx, <<>>)
  ELSE Dispatch("__call__", None, None, <<>>)

(* a slip: the cost variant is used whether or not self.const is set *)
cell_dispatch_always_cost(cell, w, hw, idx, cst) ==
  LET isSearch == cell.kind = "SearchCell" IN
  IF isSearch /\ w = None
  THEN Dispatch("forward_gdas_const", hw, idx, <<cell_cost(cell, idx)>>)
  ELSE IF isSearch
  THEN Dispatch("forward_gdas", w, max_index(w), <<>>)
  ELSE Dispatch("__call__", None, None, <<>>)

(* the if/elif chain of the layer loop: which method of the cell is        *)
(* invoked, with which weights and index, and the cost it contributes      *)
cell_dispatch(cell, w, hw, idx, cst) ==
  LET isSearch == cell.kind = "SearchCell" IN
  IF isSearch /\ w = None /\ ~cst
  THEN Dispatch("forward_gdas", hw, idx, <<>>)
  ELSE IF isSearch /\ w = None
  THEN Dispatch("forward_gdas_const", hw, idx, <<cell_cost(cell, idx)>>)
  ELSE IF isSearch
  THEN Dispatch("forward_gdas", w, max_index(w), <<>>)
  ELSE Dispatch("__call__", None, None, <<>>)

(* one iteration of "for i, cell in enumerate(self.cells)" *)
forward_cell ==
  /\ pc = "forward_cells"
  /\ li < Len(cells)
  /\ LET cell == At(cells, li)
         d == cell_dispatch(cell, weights, hardwts, index, const)
     IN /\ calls' = Append(calls, Invocation(li, d.method, d.weights, d.index))
        /\ full_cost' = full_cost \o d.cost
        /\ index' = IF cell.kind = "SearchCell" THEN d.index ELSE index
        /\ feature' = cell.out_dim
  /\ li' = li + 1
  /\ UNCHANGED <<pc, argVars, netVars, arch_parameters, err, weights, hardwts,
                 draws, n_req, sw_i, sampled_weights, ret>>

(* sum(full_cost) *)
RECURSIVE sum(_)
sum(l) == IF l = <<>> THEN 0 ELSE Head(l) + sum(Tail(l))

(* the head and "return out, logits, sum(full_cost)" *)
forward_return ==
  /\ pc = "forward_cells"
  /\ li = Len(cells)
  /\ ret' = [call |-> "forward", arg |-> weights,
             value |-> [out |-> feature, logits |-> NumClasses,
                        cost |-> sum(full_cost)]]
  /\ pc' = "returned"
  /\ UNCHANGED <<argVars, netVars, arch_parameters, err, callVars>>

(* --------------------------- sample_weights -------------------------- *)
sample_weights_call ==
  /\ pc = "idle"
  /\ \E n \in 0..MaxSamples : n_req' = n
  /\ sampled_weights' = <<>> /\ sw_i' = 0
  /\ pc' = "sample_while"
  /\ UNCHANGED <<argVars, netVars, arch_parameters, err, weights, index, hardwts,
                 draws, li, feature, full_cost, calls, ret>>

(* one execution of the body of "while True" inside "for i in range(n)" *)
sample_weights_draw ==
  /\ pc = "sample_while"
  /\ sw_i < n_req
  /\ LET probs == softmax(arch_parameters) IN
       \/ /\ multinomial_may_raise(probs)
          /\ pc' = "returned" /\ err' = "RuntimeError"
          /\ draws' = Inc(draws)
          /\ UNCHANGED <<index, hardwts, sampled_weights, sw_i>>
       \/ \E idx \in multinomial(probs) :
            LET one_h == scatter_one(probs, idx) IN
            /\ index' = idx
            /\ hardwts' = straight_through(one_h, probs)
            /\ draws' = Inc(draws)
            /\ IF NonFinite(probs)
               THEN UNCHANGED <<sampled_weights, sw_i>>
               ELSE /\ sampled_weights' = Append(sampled_weights, one_h)
                    /\ sw_i' = sw_i + 1
            /\ UNCHANGED <<pc, err>>
  /\ UNCHANGED <<argVars, netVars, arch_parameters, weights, li, feature,
                 full_cost, calls, n_req, ret>>

(* return sampled_weights *)
sample_weights_return ==
  /\ pc = "sample_while"
  /\ sw_i = n_req
  /\ ret' = [call |-> "sample_weights", arg |-> None, value |-> sampled_weights]
  /\ pc' = "returned"
  /\ UNCHANGED <<argVars, netVars, arch_parameters, err, callVars>>

Next == Construct \/ SetAlphas \/ Returned
          \/ forward_call \/ forward_sample \/ forward_no_sample \/ forward_stem
          \/ forward_cell \/ forward_return
Spec == Init /\ [][Next]_vars

NextSample == Construct \/ SetAlphas \/ Returned
                \/ forward_call \/ forward_sample \/ forward_no_sample
                \/ forward_stem \/ forward_cell \/ forward_return
                \/ sample_weights_call \/ sample_weights_draw
                \/ sample_weights_return
SpecSample == InitSample /\ [][NextSample]_vars

(* a call that has started keeps running: its steps are weakly fair *)
CallSteps == forward_sample \/ forward_no_sample \/ forward_stem \/ forward_cell
               \/ forward_return \/ sample_weights_draw \/ sample_weights_return
FairSpecSample == SpecSample /\ WF_vars(CallSteps)

NextGenotype == Construct \/ SetAlphas \/ Returned \/ genotype
SpecGenotype == InitGenotype /\ [][NextGenotype]_vars

NextBuild == Construct \/ Returned \/ get_weights \/ get_alphas
SpecBuild == InitBuild /\ [][NextBuild]_vars

(* ============================== properties =========================== *)
Range(l) == {l[x] : x \in DOMAIN l}

ReturnedFrom(call) == pc = "returned" /\ ret # None /\ ret.call = call

(* C1: genotype() returns max_nodes - 1 node entries, for the nodes         *)
(* 1..max_nodes-1 in order; the entry of node i holds exactly i             *)
(* (operation_name, source) pairs whose sources are 0, 1, ..., i-1 in that  *)
(* order, whether the live arch_parameters or an override w is decoded.     *)
C1_GenotypeShape ==
  ReturnedFrom("genotype") =>
    /\ Len(ret.value) = max_nodes - 1
    /\ \A i \in 1..(max_nodes - 1) :
         /\ Len(ret.value[i]) = i
         /\ \A j \in 0..(i - 1) :
              /\ Len(At(ret.value[i], j)) = 2
              /\ At(ret.value[i], j)[2] = j
              /\ At(ret.value[i], j)[1] \in Range(op_names)

C1_Witness ==
  /\ ReturnedFrom("genotype")
  /\ max_nodes = MaxNodes
  /\ ret.arg # None
  /\ Len(ret.value[max_nodes - 1]) = max_nodes - 1

(* C2: the name recorded for edge (i, j) is op_names[c], c a column of the  *)
(* maximum of row edge2index['i<-j'] of the matrix used (w when supplied,   *)
(* arch_parameters otherwise), for every row that has a maximum (no NaN);   *)
(* a matrix that agrees with the one used on that row yields the same       *)
(* entry, whatever its other rows hold.                                     *)
UsedMatrix == IF ret.arg = None THEN arch_parameters ELSE ret.arg

C2_ArgmaxPerEdge ==
  ReturnedFrom("genotype") =>
    \A i \in 1..(max_nodes - 1) : \A j \in 0..(i - 1) :
      LET r    == edge2index[node_str(i, j)]
          row  == UsedMatrix[r]
          name == At(ret.value[i], j)[1]
      IN /\ (\A k \in Cols : ~isnan(row[k])) =>
              \E c \in Cols : /\ name = At(op_names, c)
                              /\ \A k \in Cols : row[k] <= row[c]
         /\ \A M2 \in GenotypeInputs(NumEdge) \ {None} :
              M2[r] = row => At(genotypes(M2)[i], j) = At(ret.value[i], j)

C2_Witness ==
  /\ ReturnedFrom("genotype")
  /\ max_nodes = MaxNodes
  /\ \E e \in DOMAIN UsedMatrix :
       /\ UsedMatrix[e][NumOps - 1] = 1
       /\ \A k \in Cols : k # NumOps - 1 => UsedMatrix[e][k] = 0
  /\ \E i \in 1..(max_nodes - 1) : \E j \in 0..(i - 1) :
       At(ret.value[i], j)[1] = At(op_names, NumOps - 1)

(* C3: every matrix sample_weights() has collected or returned has shape    *)
(* (E, K) and rows with exactly one entry 1 and all others 0, the 1 of the  *)
(* newest matrix sitting at the index drawn; sample_weights(n) returns      *)
(* exactly n matrices; the selection weights forward() samples for a pass   *)
(* are one-hot in the same way, with the 1 of row e at index[e].            *)
OneHotRow(row) ==
  /\ DOMAIN row = Cols
  /\ Cardinality({k \in Cols : row[k] = 1}) = 1
  /\ \A k \in Cols : row[k] \in {0, 1}

OneHotMatrix(M) == DOMAIN M = Rows(NumEdge) /\ \A e \in DOMAIN M : OneHotRow(M[e])

OneAt(M, idx) == \A e \in DOMAIN M : M[e][idx[e]] = 1

C3_OneHotSamples ==
  /\ (pc = "sample_while" \/ ReturnedFrom("sample_weights")) =>
       /\ Len(sampled_weights) = sw_i
       /\ \A x \in 1..Len(sampled_weights) : OneHotMatrix(sampled_weights[x])
       /\ sampled_weights # <<>> =>
            OneAt(sampled_weights[Len(sampled_weights)], index)
  /\ ReturnedFrom("sample_weights") =>
       /\ Len(ret.value) = n_req
       /\ \A x \in 1..Len(ret.value) : OneHotMatrix(ret.value[x])
  /\ ((pc \in {"forward_stem", "forward_cells"} \/ ReturnedFrom("forward"))
        /\ weights = None) =>
       /\ OneHotMatrix(hardwts)
       /\ OneAt(hardwts, index)

C3_Witness ==
  /\ ReturnedFrom("sample_weights")
  /\ Len(ret.value) >= 2
  /\ NumEdge > 1
  /\ ret.value[1] # ret.value[2]

(* C4: with external weights supplied the sampling-loop body never runs     *)
(* (no draw, hardwts and index of the loop stay unassigned); every          *)
(* Searchable Cell is invoked through forward_gdas with the supplied        *)
(* weights and their per-row argmax, every other layer through its plain    *)
(* call, so the invocations are a function of the stack and the weights.    *)
IsArgmax(row, c) ==
  /\ \A k \in DOMAIN row : row[k] <= row[c]
  /\ \A k \in DOMAIN row : k < c => row[k] < row[c]

C4_ExternalWeightsNoSampling ==
  ((pc \in {"forward_while", "forward_stem", "forward_cells"} \/ ReturnedFrom("forward"))
     /\ weights # None) =>
    /\ draws = 0
    /\ hardwts = None
    /\ Len(calls) = li
    /\ ReturnedFrom("forward") => li = Len(cells)
    /\ \A x \in 1..Len(calls) :
         IF cells[x].kind = "SearchCell"
         THEN /\ calls[x].layer = x - 1
              /\ calls[x].method = "forward_gdas"
              /\ calls[x].weights = weights
              /\ DOMAIN calls[x].index = DOMAIN weights
              /\ \A e \in DOMAIN weights : IsArgmax(weights[e], calls[x].index[e])
         ELSE calls[x] = Invocation(x - 1, "__call__", None, None)

C4_Witness ==
  /\ ReturnedFrom("forward")
  /\ weights # None
  /\ NumEdge > 1
  /\ \E x \in 1..Len(calls) :
       /\ cells[x].kind = "SearchCell"
       /\ \E e \in DOMAIN weights : calls[x].index[e] # 0

(* C5: no element of get_weights() is the element of get_alphas(), which    *)
(* holds exactly the Architecture Parameter Matrix, while every parameter   *)
(* of the stem, the cell stack, the final normalization and the classifier  *)
(* is in get_weights().                                                     *)
C5_WeightsExcludeAlphas ==
  /\ pc \in {"idle", "returned"} =>
       /\ Len(get_alphas_list) = 1
       /\ get_alphas_list[1] = ArchParam
  /\ ReturnedFrom("get_weights") =>
       /\ \A x \in Range(ret.value) : x \notin Range(get_alphas_list)
       /\ Range(params.stem) \cup Range(params.cells) \cup Range(params.lastact)
            \cup Range(params.classifier) \subseteq Range(ret.value)
       /\ Len(params.cells) = Len(cells)

C5_Witness ==
  /\ ReturnedFrom("get_weights")
  /\ N = MaxN
  /\ Len(ret.value) > Len(cells)

(* C6: __init__ takes the edge layout of the first Searchable Cell and      *)
(* aborts with a failed assertion at the first later Searchable Cell that   *)
(* reports another num_edges or edge2index, the layers before it built and  *)
(* no arch_parameters allocated; when construction completes every          *)
(* Searchable Cell has the network's num_edges and edge2index, and          *)
(* arch_parameters has that many rows and len(search_space) columns.        *)
SetMin(S) == CHOOSE x \in S : \A y \in S : x <= y

Mismatches ==
  LET pos == SearchPositions(LayerPlan(C, N, inp_size)) IN
  IF pos = {} THEN {}
  ELSE {p \in pos : cellReports[p] # cellReports[SetMin(pos)]}

C6_LayoutAgreement ==
  /\ (pc # "new" /\ Mismatches # {}) =>
       /\ pc = "failed" /\ err = "AssertionError"
       /\ Len(cells) = SetMin(Mismatches) - 1
       /\ arch_parameters = None
  /\ (pc # "new" /\ err = "AssertionError") => Mismatches # {}
  /\ pc \in {"idle", "returned"} =>
       /\ \A x \in 1..Len(cells) :
            cells[x].kind = "SearchCell" =>
              /\ cells[x].num_edges = Cardinality(DOMAIN edge2index)
              /\ cells[x].edge2index = edge2index
       /\ DOMAIN arch_parameters = Rows(Cardinality(DOMAIN edge2index))
       /\ \A e \in DOMAIN arch_parameters :
            DOMAIN arch_parameters[e] = 0..(Len(search_space) - 1)

C6_Witness ==
  /\ pc = "failed" /\ err = "AssertionError"
  /\ Len(cells) > N + 1
  /\ \E p \in Mismatches : cellReports[p].num_edges = cellReports[1].num_edges

(* C7 as stated: the plan is the block "N searchable cells, then one        *)
(* reduction" three times over, 3N searchable cells and three reductions.   *)
C7_ThreeReductions ==
  pc \in {"idle", "returned"} =>
    /\ Len(layers) = 3 * (N + 1)
    /\ \A x \in 1..Len(layers) : layers[x].reduction <=> (x % (N + 1) = 0)

(* C7, amended: the plan is three groups of N searchable cells, at widths   *)
(* C, 2C, 4C and sizes inp_size, inp_size/2, inp_size/4, separated by two   *)
(* reductions (to 2C at inp_size/2, to 4C at inp_size/4): 3N + 2 layers,    *)
(* the last group not followed by a reduction; a completed stack follows    *)
(* the plan.                                                                *)
Pow2(g) == IF g = 0 THEN 1 ELSE IF g = 1 THEN 2 ELSE 4

C7_TwoReductions ==
  /\ pc # "new" =>
       /\ Len(layers) = 3 * N + 2
       /\ \A x \in 1..Len(layers) :
            LET g == (x - 1) \div (N + 1) IN
            /\ layers[x].reduction <=> (x \in {N + 1, 2 * N + 2})
            /\ ~layers[x].reduction =>
                 /\ layers[x].C_curr = C * Pow2(g)
                 /\ layers[x].size * Pow2(g) = 4 * inp_size
            /\ layers[x].reduction =>
                 /\ layers[x].C_curr = C * Pow2(g + 1)
                 /\ layers[x].size * Pow2(g + 1) = 4 * inp_size
       /\ Cardinality({x \in 1..Len(layers) : layers[x].reduction}) = 2
       /\ Cardinality({x \in 1..Len(layers) : ~layers[x].reduction}) = 3 * N
  /\ pc \in {"idle", "returned"} =>
       /\ Len(cells) = Len(layers)
       /\ \A x \in 1..Len(cells) :
            /\ (cells[x].kind = "ResNetBasicblock") <=> layers[x].reduction
            /\ (cells[x].kind = "SearchCell") <=> ~layers[x].reduction
            /\ cells[x].out_dim = layers[x].C_curr
            /\ cells[x].C_in = IF x = 1 THEN C ELSE layers[x - 1].C_curr

C7_Witness ==
  /\ pc = "idle"
  /\ N = MaxN
  /\ inp_size # 0
  /\ ~layers[Len(layers)].reduction

(* C8: each layer takes exactly one dispatch branch; a cost is appended     *)
(* once per Searchable Cell iff no external weights were supplied and       *)
(* inp_size is truthy, never for a reduction block; the third value         *)
(* forward() returns is the sum of the costs of this call, 0 when none      *)
(* was accumulated.                                                         *)
RECURSIVE CostsUpTo(_)
CostsUpTo(n) ==
  IF n = 0 THEN <<>>
  ELSE CostsUpTo(n - 1) \o
         (IF cells[n].kind = "SearchCell" THEN <<cell_cost(cells[n], index)>> ELSE <<>>)

RECURSIVE Total(_)
Total(l) == IF Len(l) = 0 THEN 0 ELSE l[Len(l)] + Total(SubSeq(l, 1, Len(l) - 1))

C8_CostIsSumOfThisCall ==
  /\ (pc = "forward_cells" \/ ReturnedFrom("forward")) =>
       /\ Len(calls) = li
       /\ \A x \in 1..Len(calls) : calls[x].layer = x - 1
       /\ full_cost = IF weights = None /\ inp_size # 0 THEN CostsUpTo(li) ELSE <<>>
  /\ ReturnedFrom("forward") =>
       /\ li = Len(cells)
       /\ ret.value.cost = Total(full_cost)
       /\ (weights # None \/ inp_size = 0) => ret.value.cost = 0

C8_Witness ==
  /\ ReturnedFrom("forward")
  /\ weights = None /\ inp_size # 0
  /\ Len(full_cost) = 3 * N
  /\ N > 1
  /\ ret.value.cost > full_cost[1]

(* C9: without external weights the selection is drawn once per pass: when  *)
(* the layers run exactly one draw has been made, it is not redrawn, and    *)
(* every Searchable Cell invoked so far was passed that (hardwts, index);   *)
(* with finite softmax probabilities no draw is ever discarded.             *)
FiniteSoftmax ==
  \A e \in DOMAIN arch_parameters :
    /\ \A k \in Cols : arch_parameters[e][k] \notin {NaN, PosInf}
    /\ \E k \in Cols : arch_parameters[e][k] # NegInf

C9_SampledOncePerPass ==
  /\ ((pc \in {"forward_stem", "forward_cells"} \/ ReturnedFrom("forward"))
        /\ weights = None) =>
       /\ draws = 1
       /\ index # None /\ hardwts # None
       /\ \A x \in 1..Len(calls) :
            cells[x].kind = "SearchCell" =>
              calls[x].weights = hardwts /\ calls[x].index = index
  /\ (pc = "forward_while" /\ weights = None /\ FiniteSoftmax) => draws = 0
  /\ (pc = "returned" /\ weights = None /\ FiniteSoftmax) => err = ""

C9_Witness ==
  /\ ReturnedFrom("forward")
  /\ weights = None
  /\ N > 1
  /\ Len(calls) = Len(cells)
  /\ \E e \in DOMAIN index : index[e] # 0

(* C10: whenever forward() (no external weights) or sample_weights() is in  *)
(* its sampling loop, the call eventually leaves the loop with a finite     *)
(* draw accepted and no error surfaced.                                     *)
InSamplingLoop ==
  \/ pc = "forward_while" /\ weights = None
  \/ pc = "sample_while" /\ sw_i < n_req

LeftSamplingLoop ==
  /\ err = ""
  /\ \/ pc = "forward_stem"
     \/ pc = "sample_while" /\ sw_i = n_req

C10_LoopEndsWithFiniteDraw == InSamplingLoop ~> LeftSamplingLoop

====
